---- MODULE Spec2Model ----
(***************************************************************************)
(* Verification model of the ingestion and cleaning pipeline of the        *)
(* repository: utils/file_parser.py (format dispatch and parsers),         *)
(* data_engine/cleaner.py (normalizer, imputer, report) and the pipeline   *)
(* entry points clean_and_report, clean_file_pipeline, run_full_workflow.  *)
(*                                                                         *)
(* Representation.                                                         *)
(*   - A Python str is a sequence of one-character strings, so that        *)
(*     strip(), lower() and replace() are computed, not assumed.           *)
(*   - A cell is NaN, Num(n) or Str(s).  Num(n) stores the number n/2      *)
(*     (values are kept in halves), so that the median of an even number   *)
(*     of integer values is exact.                                         *)
(*   - A DataFrame is a record [columns, dtypes, rows]: the column labels, *)
(*     the dtype of each column ("float64" or "object") and the rows, each *)
(*     a sequence of cells, one per column.                                *)
(*   - A call either returns a value, Ret(v), or raises, Raise(e, m).      *)
(* pandas semantics are those of pandas 1.x/2.x without copy-on-write, the *)
(* versions whose idioms the code uses (df[col].fillna(..., inplace=True)).*)
(***************************************************************************)
EXTENDS Integers, Sequences, FiniteSets, TLC

VARIABLES
    df,      \* the DataFrame held by the caller / the running invocation
    last,    \* the last cleaner call applied to df: its name, argument, outcome
    disk,    \* the files written so far: path -> table
    pc,      \* position of the pipeline invocation
    fn,      \* the entry point invoked
    file,    \* the input file of the invocation
    bound,   \* names bound in the namespace of utils.file_parser
    steps,   \* the pipeline steps the invocation has completed, in order
    result,  \* the value returned by the entry point
    run      \* concurrent invocations: each one's position, input, table, result

vars == <<df, last, disk, pc, fn, file, bound, steps, result, run>>

(***************************************************************************)
(* Bounds of the model.                                                    *)
(***************************************************************************)
MaxCells == 4

MaxCols == 2

MaxNameLen == 2

\* the longest column of numbers given to detect_outliers
MaxSample == 11

(***************************************************************************)
(* Generic helpers.                                                        *)
(***************************************************************************)
SetMin(S) == CHOOSE m \in S : \A n \in S : m <= n

SetMax(S) == CHOOSE m \in S : \A n \in S : m >= n

SeqsUpTo(S, n) == UNION {[1..k -> S] : k \in 0..n}

\* the subsequence of s at the positions in keep, in order
RECURSIVE Select(_, _, _)
Select(s, keep, i) ==
    IF i > Len(s) THEN <<>>
    ELSE (IF i \in keep THEN <<s[i]>> ELSE <<>>) \o Select(s, keep, i + 1)

Ret(v) == [val |-> v]

Raise(e, m) == [exc |-> e, msg |-> m]

Raised(r) == "exc" \in DOMAIN r

(***************************************************************************)
(* Python str methods.                                                     *)
(***************************************************************************)
Whitespace == {" ", "\t", "\n"}

\* str.strip(): removes leading and trailing whitespace
strip(s) ==
    LET idx == {i \in 1..Len(s) : s[i] \notin Whitespace}
    IN  IF idx = {} THEN <<>> ELSE SubSeq(s, SetMin(idx), SetMax(idx))

lower_char(c) ==
    CASE c = "A" -> "a"
      [] c = "N" -> "n"
      [] c = "U" -> "u"
      [] c = "L" -> "l"
      [] c = "X" -> "x"
      [] OTHER -> c

\* str.lower()
lower(s) == [i \in 1..Len(s) |-> lower_char(s[i])]

\* str.replace(old, new) for one-character old and new
replace(s, old, new) == [i \in 1..Len(s) |-> IF s[i] = old THEN new ELSE s[i]]

(***************************************************************************)
(* Cells and DataFrames.                                                   *)
(***************************************************************************)
NaN == [nan |-> TRUE]

Num(n) == [num |-> n]

Str(s) == [str |-> s]

IsStr(c) == "str" \in DOMAIN c

IsNum(c) == "num" \in DOMAIN c

NCols(t) == Len(t.columns)

NRows(t) == Len(t.rows)

Column(t, j) == [i \in 1..NRows(t) |-> t.rows[i][j]]

\* DataFrame.empty: no rows or no columns
IsEmpty(t) == NRows(t) = 0 \/ NCols(t) = 0

EmptyDataFrame == [columns |-> <<>>, dtypes |-> <<>>, rows |-> <<>>]

\* pd.DataFrame(records) built from tuples or lists: the column labels are
\* the integers 0, 1, ...; the table carries the mark int_labels
RangeLabelled(t) == [columns |-> t.columns, dtypes |-> t.dtypes, rows |-> t.rows,
                     int_labels |-> TRUE]

IntLabelled(t) == "int_labels" \in DOMAIN t

NoStrip == "'int' object has no attribute 'strip'"

\* positions of the columns carrying label name (df[name] is a Series iff one)
Labelled(t, name) == {j \in 1..NCols(t) : t.columns[j] = name}

\* the table with column j rewritten cell by cell by f
MapColumn(t, j, f(_)) ==
    [t EXCEPT !.rows = [i \in 1..NRows(t) |-> [@[i] EXCEPT ![j] = f(@)]]]

\* DataFrame.dropna(axis=0, how="all")
dropna_rows(t) ==
    LET keep == {i \in 1..NRows(t) : \E j \in 1..NCols(t) : t.rows[i][j] # NaN}
    IN  [t EXCEPT !.rows = Select(t.rows, keep, 1)]

\* DataFrame.dropna(axis=1, how="all")
dropna_cols(t) ==
    LET keep == {j \in 1..NCols(t) : \E i \in 1..NRows(t) : t.rows[i][j] # NaN}
    IN  [t EXCEPT !.columns = Select(@, keep, 1),
                  !.dtypes  = Select(@, keep, 1),
                  !.rows    = [i \in 1..NRows(t) |-> Select(@[i], keep, 1)]]

\* DataFrame.drop_duplicates(): keeps the first of equal rows (NaN equals NaN)
drop_duplicates(t) ==
    LET keep == {i \in 1..NRows(t) : \A k \in 1..(i - 1) : t.rows[k] # t.rows[i]}
    IN  [t EXCEPT !.rows = Select(t.rows, keep, 1)]

\* Series.astype(str).str.strip() on one cell: a missing cell becomes "nan"
astype_str_strip(c) ==
    IF c = NaN THEN Str(<<"n", "a", "n">>)
    ELSE IF IsStr(c) THEN Str(strip(c.str))
    ELSE c

NumericCols(t) == {j \in 1..NCols(t) : t.dtypes[j] = "float64"}

(***************************************************************************)
(* data_engine/cleaner.py                                                  *)
(***************************************************************************)
na_values ==
    { <<>>, <<"n", "a">>, <<"n", "/", "a">>, <<"n", "u", "l", "l">>,
      <<"N", "U", "L", "L">>, <<"N", "a", "N">>, <<"-">>, <<"-", "-">> }

\* replace_na_like_values: df.replace(na_values, np.nan)
replace_na_like_values(t) ==
    [t EXCEPT !.rows = [i \in 1..NRows(t) |-> [j \in 1..NCols(t) |->
        IF IsStr(@[i][j]) /\ @[i][j].str \in na_values THEN NaN ELSE @[i][j]]]]

\* the renaming without lower()
normalize_name_no_lower(col) == replace(strip(col), " ", "_")

\* the renaming of normalize_column_names (line 36) and clean_data_file (line 109)
normalize_name(col) == replace(lower(strip(col)), " ", "_")

\* normalize_column_names: renames the columns of df in place
normalize_column_names(t) ==
    [t EXCEPT !.columns = [j \in 1..NCols(t) |-> normalize_name(@[j])]]

\* clean_dataframe, line 61
trim_name(col) == replace(strip(col), "\n", " ")

\* clean_dataframe, lines 65-66: for each object column, in order,
\* df[col] = df[col].astype(str).str.strip(); df[col] is a DataFrame, which
\* has no .str, when the label col is carried by more than one column
RECURSIVE strip_object_columns(_, _)
strip_object_columns(t, j) ==
    IF j > NCols(t) THEN [df |-> t, val |-> t]
    ELSE IF t.dtypes[j] # "object" THEN strip_object_columns(t, j + 1)
    ELSE IF Cardinality(Labelled(t, t.columns[j])) > 1
         THEN [df |-> t, exc |-> "AttributeError",
               msg |-> "'DataFrame' object has no attribute 'str'"]
    ELSE strip_object_columns(MapColumn(t, j, astype_str_strip), j + 1)

\* clean_dataframe: r.df is the argument after the call (it is changed in
\* place up to line 66), r.val the table returned, r.exc the exception raised
clean_dataframe(t) ==
    LET d1 == [t EXCEPT !.columns = [j \in 1..NCols(t) |-> trim_name(@[j])]]
        d2 == dropna_rows(d1)
        d3 == dropna_cols(d2)
        d4 == drop_duplicates(d3)
        r5 == strip_object_columns(d4, 1)
    IN  IF IntLabelled(t) THEN [df |-> t, exc |-> "AttributeError", msg |-> NoStrip]
        ELSE IF Raised(r5) THEN r5
        ELSE [df |-> r5.df, val |-> replace_na_like_values(r5.df)]

\* the Normalizer as the callers run it: df = clean_dataframe(df) followed by
\* normalize_column_names(df) (clean_and_report 151-153, clean_data 81-82)
Normalizer(t) ==
    LET r == clean_dataframe(t)
    IN  IF Raised(r) THEN r
        ELSE [df |-> normalize_column_names(r.val),
              val |-> normalize_column_names(r.val)]

(***************************************************************************)
(* Imputation: clean_data_file.                                            *)
(***************************************************************************)
\* the non-missing cells of column j, in row order
NonMissing(t, j) ==
    LET col == Column(t, j)
    IN  Select(col, {i \in 1..Len(col) : col[i] # NaN}, 1)

HasMissing(t, j) == \E i \in 1..NRows(t) : t.rows[i][j] = NaN

\* the k-th smallest of the numbers of a sequence of Num cells
Kth(cells, k) ==
    LET val(i) == cells[i].num
        rank(i) == Cardinality({m \in 1..Len(cells) :
                      val(m) < val(i) \/ (val(m) = val(i) /\ m < i)}) + 1
    IN  val(CHOOSE i \in 1..Len(cells) : rank(i) = k)

\* the upper middle value instead of the mean of the two middle values
median_upper(t, j) ==
    LET xs == NonMissing(t, j)
        n  == Len(xs)
    IN  IF n = 0 THEN NaN ELSE Num(Kth(xs, n \div 2 + 1))

\* Series.median(): over the non-missing values; NaN when there is none
median(t, j) ==
    LET xs == NonMissing(t, j)
        n  == Len(xs)
    IN  IF n = 0 THEN NaN
        ELSE IF n % 2 = 1 THEN Num(Kth(xs, (n + 1) \div 2))
        ELSE Num((Kth(xs, n \div 2) + Kth(xs, n \div 2 + 1)) \div 2)

\* a fill that writes every cell of the column
fillna_overwrite(t, j, v) ==
    [t EXCEPT !.rows = [i \in 1..NRows(t) |-> [@[i] EXCEPT ![j] = v]]]

\* Series.fillna(v, inplace=True) on column j
fillna(t, j, v) ==
    [t EXCEPT !.rows = [i \in 1..NRows(t) |->
        [@[i] EXCEPT ![j] = IF @ = NaN THEN v ELSE @]]]

CharCode(c) ==
    CASE c = "\t" -> 9
      [] c = "\n" -> 10
      [] c = " " -> 32
      [] c = "-" -> 45
      [] c = "/" -> 47
      [] c = "A" -> 65
      [] c = "L" -> 76
      [] c = "N" -> 78
      [] c = "U" -> 85
      [] c = "X" -> 88
      [] c = "_" -> 95
      [] c = "a" -> 97
      [] c = "l" -> 108
      [] c = "n" -> 110
      [] c = "u" -> 117
      [] c = "x" -> 120
      [] c = "y" -> 121
      [] OTHER -> 128

\* Python's order on str: a < b
StrLess(a, b) ==
    \E k \in 1..(Len(a) + 1) :
        /\ \A m \in 1..(k - 1) : m <= Len(b) /\ a[m] = b[m]
        /\ k <= Len(b)
        /\ (k = Len(a) + 1 \/ CharCode(a[k]) < CharCode(b[k]))

Count(xs, c) == Cardinality({i \in 1..Len(xs) : xs[i] = c})

\* Series.mode(): the most frequent non-missing values, sorted ascending
\* (the set here; mode()[0] is its least element)
mode(t, j) ==
    LET xs == NonMissing(t, j)
    IN  {xs[i] : i \in {k \in 1..Len(xs) :
                          \A m \in 1..Len(xs) : Count(xs, xs[m]) <= Count(xs, xs[k])}}

\* line 122: df[col].mode()[0] if not df[col].mode().empty else "Unknown"
mode_val(t, j) ==
    LET ms == mode(t, j)
    IN  IF ms = {} THEN Str(<<"U", "n", "k", "n", "o", "w", "n">>)
        ELSE CHOOSE c \in ms : \A d \in ms \ {c} : StrLess(c.str, d.str)

AmbiguousTruth == "The truth value of a Series is ambiguous"

\* lines 112-116: for col in numeric_cols: if df[col].isnull().any(): fill with
\* the median.  df[col] is a DataFrame when the label is carried by several
\* columns, and `if` on the Series isnull().any() then raises ValueError.
RECURSIVE fill_numeric(_, _)
fill_numeric(t, j) ==
    IF j > NCols(t) THEN [df |-> t, val |-> t]
    ELSE IF t.dtypes[j] # "float64" THEN fill_numeric(t, j + 1)
    ELSE IF Cardinality(Labelled(t, t.columns[j])) > 1
         THEN [df |-> t, exc |-> "ValueError", msg |-> AmbiguousTruth]
    ELSE IF HasMissing(t, j) THEN fill_numeric(fillna(t, j, median(t, j)), j + 1)
    ELSE fill_numeric(t, j + 1)

\* lines 119-123: the same for the object columns, with the mode
RECURSIVE fill_categorical(_, _)
fill_categorical(t, j) ==
    IF j > NCols(t) THEN [df |-> t, val |-> t]
    ELSE IF t.dtypes[j] # "object" THEN fill_categorical(t, j + 1)
    ELSE IF Cardinality(Labelled(t, t.columns[j])) > 1
         THEN [df |-> t, exc |-> "ValueError", msg |-> AmbiguousTruth]
    ELSE IF HasMissing(t, j) THEN fill_categorical(fillna(t, j, mode_val(t, j)), j + 1)
    ELSE fill_categorical(t, j + 1)

\* lines 126-127: df[col] = df[col].astype(str).str.strip(), object columns
strip_categorical(t) ==
    [t EXCEPT !.rows = [i \in 1..NRows(t) |-> [j \in 1..NCols(t) |->
        IF t.dtypes[j] = "object" THEN astype_str_strip(@[i][j]) ELSE @[i][j]]]]

\* lines 103-109: the table the imputation steps start from
before_fill(t) ==
    LET d2 == drop_duplicates(dropna_cols(t))
    IN  IF IntLabelled(t) THEN d2 ELSE normalize_column_names(d2)

\* lines 111-123: the imputation steps (not reached when line 109 raises)
impute(t) ==
    LET r4 == fill_numeric(t, 1)
    IN  IF IntLabelled(t) THEN [df |-> t, exc |-> "AttributeError", msg |-> NoStrip]
        ELSE IF Raised(r4) THEN r4 ELSE fill_categorical(r4.df, 1)

\* os.path.dirname of a path given as its sequence of components
dirname(path) == SubSeq(path, 1, Len(path) - 1)

\* clean_data_file(df, output_path): r.df is the argument after the call,
\* r.val the table returned, r.exc the exception raised, r.saved whether
\* line 131 wrote the table to output_path
clean_data_file(t, output_path) ==
    LET r5 == impute(before_fill(t))
        d6 == strip_categorical(r5.df)
    IN  IF Raised(r5) THEN [df |-> r5.df, exc |-> r5.exc, msg |-> r5.msg, saved |-> FALSE]
        ELSE IF dirname(output_path) = <<>>
             THEN [df |-> d6, exc |-> "FileNotFoundError",
                   msg |-> "No such file or directory: ''", saved |-> FALSE]
        ELSE [df |-> d6, val |-> d6, saved |-> TRUE]

(***************************************************************************)
(* The cleaner functions applied by a caller to a table it holds.          *)
(***************************************************************************)
NoCall == [op |-> "none"]

\* the record of a call: its name, its argument, the exception raised ("" for
\* none), the number n of calls of op applied in a row, each to the result of
\* the one before, and for clean_data_file the table before and after the
\* imputation steps (lines 110 and 124)
Chain(op) == IF last.op = op /\ last.exc = "" /\ last.n < 2 THEN last.n + 1
             ELSE IF last.op = op /\ last.exc = "" THEN last.n
             ELSE 1

ExcOf(r) == IF Raised(r) THEN r.exc ELSE ""

AfterCall(r) == IF Raised(r) THEN r.df ELSE r.val

\* no concurrent invocation
NoRuns == <<>>

PipelineIdle ==
    /\ pc = "none" /\ fn = "none" /\ file = "none" /\ bound = {}
    /\ steps = <<>> /\ result = "none" /\ run = NoRuns

CallCleanDataframe ==
    /\ pc = "none" /\ NCols(df) > 0
    /\ LET r == clean_dataframe(df)
       IN  /\ df' = AfterCall(r)
           /\ last' = [op |-> "clean_dataframe", arg |-> df, exc |-> ExcOf(r),
                       n |-> Chain("clean_dataframe")]
    /\ UNCHANGED <<disk, pc, fn, file, bound, steps, result, run>>

CallNormalizeColumnNames ==
    /\ pc = "none" /\ NCols(df) > 0
    /\ df' = normalize_column_names(df)
    /\ last' = [op |-> "normalize_column_names", arg |-> df, exc |-> "",
                n |-> Chain("normalize_column_names")]
    /\ UNCHANGED <<disk, pc, fn, file, bound, steps, result, run>>

CallNormalizer ==
    /\ pc = "none" /\ NCols(df) > 0
    /\ LET r == Normalizer(df)
       IN  /\ df' = AfterCall(r)
           /\ last' = [op |-> "Normalizer", arg |-> df, exc |-> ExcOf(r),
                       n |-> Chain("Normalizer")]
    /\ UNCHANGED <<disk, pc, fn, file, bound, steps, result, run>>

OutputPaths == { <<"data", "cleaned", "out.csv">>, <<"out.csv">> }

CallCleanDataFile ==
    /\ pc = "none" /\ NCols(df) > 0
    /\ \E output_path \in OutputPaths :
         LET r == clean_data_file(df, output_path)
         IN  /\ df' = r.df
             /\ last' = [op |-> "clean_data_file", arg |-> df, exc |-> ExcOf(r),
                         n |-> Chain("clean_data_file"),
                         pre |-> before_fill(df),
                         post |-> impute(before_fill(df)).df]
             /\ disk' = IF r.saved THEN {w \in disk : w[1] # output_path}
                                        \cup {<<output_path, r.df>>}
                        ELSE disk
    /\ UNCHANGED <<pc, fn, file, bound, steps, result, run>>

NextClean ==
    \/ CallCleanDataframe
    \/ CallNormalizeColumnNames
    \/ CallNormalizer
    \/ CallCleanDataFile

\* ---- the tables a caller may hold ----
NameAlphabet == {"A", " ", "\t", "\n"}

ObjectCells == {NaN, Str(<<" ", "x">>), Str(<<"n", "a">>)}

NumericCells == {NaN, Num(2), Num(6)}

CellsOf(dtype) == IF dtype = "object" THEN ObjectCells ELSE NumericCells

Dtypes == {"object", "float64"}

RowsOver(ds, cells(_)) ==
    {r \in [1..Len(ds) -> ObjectCells \cup NumericCells] :
        \A j \in 1..Len(ds) : r[j] \in cells(ds[j])}

\* the tables of ncols columns labelled from names and nrows rows of cells
TablesOver(names, ncols, nrows, cells(_)) ==
    UNION { { [columns |-> cs, dtypes |-> ds, rows |-> rs] :
                cs \in [1..ncols -> names],
                rs \in [1..nrows -> RowsOver(ds, cells)] }
            : ds \in [1..ncols -> Dtypes] }

\* tables of at most MaxCols columns and MaxCells cells, labelled with two
\* names that the renaming maps to the same name
CellNames == { <<"A">>, <<" ", "a">> }

Shapes == {s \in (1..MaxCols) \X (0..MaxCells) : s[1] * s[2] <= MaxCells}

CellTables == UNION { TablesOver(CellNames, s[1], s[2], CellsOf) : s \in Shapes }

NumericOnly(dtype) == IF dtype = "float64" THEN {Num(2)} ELSE {}

OneCell(dtype) == IF dtype = "object" THEN {Str(<<" ", "x">>)} ELSE {Num(2)}

\* one-row numeric tables of one or two columns, labelled with every name of
\* at most MaxNameLen characters
NameTables ==
    UNION { TablesOver(SeqsUpTo(NameAlphabet, MaxNameLen), k, 1, NumericOnly)
            : k \in {1, 2} }

InitClean ==
    /\ df \in CellTables \cup NameTables
    /\ last = NoCall
    /\ disk = {}
    /\ PipelineIdle

CleanSpec == InitClean /\ [][NextClean]_vars

(***************************************************************************)
(* utils/file_parser.py                                                    *)
(***************************************************************************)
SUPPORTED_FORMATS ==
    {".csv", ".xlsx", ".xls", ".json", ".parquet", ".txt",
     ".xml", ".sql", ".log", ".hl7", ".pdf", ".eml"}

\* str.lower() on the extensions of the model
lower_ext(ext) == IF ext = ".CSV" THEN ".csv" ELSE ext

\* mimetypes.guess_type(path)[0]; "None" when the type is not known
guess_type(ext) ==
    CASE ext = ".png" -> "image/png"
      [] ext = ".csv" -> "text/csv"
      [] ext = ".json" -> "application/json"
      [] ext = ".txt" -> "text/plain"
      [] ext = ".xml" -> "application/xml"
      [] ext = ".pdf" -> "application/pdf"
      [] OTHER -> "None"

\* detect_file_format: the extension, else the MIME type, else "unknown"
detect_file_format(f) ==
    LET ext == lower_ext(f.ext)
    IN  IF ext \in SUPPORTED_FORMATS THEN ext
        ELSE IF guess_type(ext) # "None" THEN guess_type(ext)
        ELSE "unknown"

\* the dict literal of parse_file, lines 131-144: extension -> parser name
parser_map ==
    [e \in SUPPORTED_FORMATS |->
        CASE e = ".csv" -> "parse_csv"
          [] e \in {".xlsx", ".xls"} -> "parse_excel"
          [] e = ".json" -> "parse_json"
          [] e = ".parquet" -> "parse_parquet"
          [] e = ".txt" -> "parse_txt"
          [] e = ".xml" -> "parse_xml"
          [] e = ".sql" -> "parse_sql"
          [] e = ".log" -> "parse_log"
          [] e = ".hl7" -> "parse_hl7"
          [] OTHER -> IF e = ".pdf" THEN "parse_pdf" ELSE "parse_eml"]

\* the names the module binds when it is loaded: its defs, and pq (line 18)
ModuleNames ==
    {"parse_csv_file", "parse_excel_file", "parse_json_file", "parse_parquet_file",
     "parse_xml_file", "parse_pdf_file", "parse_file", "save_uploaded_file",
     "is_supported_format", "detect_file_format", "parse_csv", "parse_excel",
     "parse_json", "parse_parquet", "parse_xml", "parse_sql", "parse_log",
     "parse_hl7", "parse_pdf", "parse_eml", "parse_sql_file", "parse_text_file",
     "pq"}

\* names the module uses that loading it may leave unbound: fitz and hl7 are
\* None when the import fails (lines 84-92); parse_txt (line 137) has no
\* definition in the module and is bound only if the deployment provides one
OptionalNames == {"parse_txt", "fitz", "hl7"}

\* the one-column table of the stripped non-blank lines of a text; the raw
\* lines are the text cells of the first column of t
LinesOf(name, t) ==
    LET raw == Select(Column(t, 1), {i \in 1..NRows(t) : IsStr(t.rows[i][1])}, 1)
        stripped == [i \in 1..Len(raw) |-> <<Str(strip(raw[i].str))>>]
    IN  [columns |-> <<name>>, dtypes |-> <<"object">>,
         rows |-> Select(stripped, {i \in 1..Len(raw) : stripped[i][1] # Str(<<>>)}, 1)]

\* a reader of the pandas / standard library on a file: raises on a zero-byte
\* or broken file, returns an empty table when the file holds no record
Reader(f, error) ==
    CASE f.content = "zero_bytes" -> Raise(error, "empty input")
      [] f.content = "malformed" -> Raise(error, "malformed input")
      [] f.content = "no_records" -> Ret(EmptyDataFrame)
      [] OTHER -> Ret(f.table)

\* the format parsers, lines 161-226: the outcomes of parser name on file f
run_parser(name, f, names) ==
    CASE name = "parse_csv" ->
            \* read_csv has no parameter `errors` (line 162)
            {Raise("TypeError", "read_csv() got an unexpected keyword argument 'errors'")}
      [] name = "parse_excel" -> {Reader(f, "ValueError")}
      [] name = "parse_json" -> {Reader(f, "JSONDecodeError")}
      [] name = "parse_parquet" ->
            IF "pq" \notin names
            THEN {Raise("ImportError", "pyarrow is required for .parquet files")}
            ELSE {Reader(f, "ArrowInvalid")}
      [] name = "parse_txt" ->
            \* not defined in the module: any outcome
            {Raise("Exception", "parse_txt failed"), Ret(EmptyDataFrame)}
                \cup (IF f.content = "records" THEN {Ret(f.table)} ELSE {})
      [] name = "parse_xml" -> {Reader(f, "ParseError")}
      [] name = "parse_sql" ->
            IF f.content # "records"
            THEN {Raise("ValueError", "No INSERT INTO statements found.")}
            ELSE {Ret(RangeLabelled(f.table))}
      [] name = "parse_log" ->
            {Ret(LinesOf(<<"l", "o", "g", "_", "l", "i", "n", "e">>, f.table))}
      [] name = "parse_hl7" ->
            IF "hl7" \notin names
            THEN {Raise("ImportError", "hl7 library is not installed.")}
            ELSE IF f.content # "records" THEN {Raise("ParseException", "bad HL7")}
            ELSE {Ret(RangeLabelled(f.table))}
      [] name = "parse_pdf" ->
            IF "fitz" \notin names
            THEN {Raise("ImportError", "PyMuPDF (fitz) is not installed.")}
            ELSE IF f.content \in {"zero_bytes", "malformed"}
                 THEN {Raise("FileDataError", "cannot open document")}
            ELSE {Ret(LinesOf(<<"c", "o", "n", "t", "e", "n", "t">>, f.table))}
      [] OTHER ->
            \* parse_eml: the outcome of eml_parser on a file without a message
            \* is the library's
            IF f.content = "records" THEN {Ret(f.table)}
            ELSE {Raise("Exception", "eml_parser failed"), Ret(EmptyDataFrame)}

\* parse_file(file_path), lines 128-156: the possible outcomes.  An outcome
\* is what parse_file returns (val) or raises (exc), with the exception the
\* selected parser raised (parser_exc, "" for none) and whether the
\* extension was found in parser_map (known).
parse_file(f, names) ==
    LET ext == lower_ext(f.ext)
    IN  IF \E e \in DOMAIN parser_map : parser_map[e] \notin names
        THEN {[exc |-> "NameError", msg |-> "name 'parse_txt' is not defined",
               parser_exc |-> "", known |-> FALSE]}
        ELSE IF ext \notin DOMAIN parser_map
        THEN {[val |-> EmptyDataFrame, parser_exc |-> "", known |-> FALSE]}
        ELSE {IF Raised(o)
              THEN [val |-> EmptyDataFrame, parser_exc |-> o.exc, known |-> TRUE]
              ELSE [val |-> o.val, parser_exc |-> "", known |-> TRUE]
              : o \in run_parser(parser_map[ext], f, names)}

(***************************************************************************)
(* Outlier detection and the report of clean_and_report.                   *)
(***************************************************************************)
\* a dict keyed by column name, built column by column: a later column
\* with the same name replaces the entry of an earlier one
DictByName(t, cols, value(_)) ==
    {<<t.columns[j], value(j)>> :
        j \in {k \in cols : \A m \in cols : m > k => t.columns[m] # t.columns[k]}}

\* a count with the threshold 2 in place of 3
outlier_count_above_2(t, j) ==
    LET xs == NonMissing(t, j)
        n  == Len(xs)
        RECURSIVE Sum(_, _)
        Sum(i, sq) == IF i > n THEN 0
                      ELSE (IF sq THEN xs[i].num * xs[i].num ELSE xs[i].num) + Sum(i + 1, sq)
        S  == Sum(1, FALSE)
        Q  == Sum(1, TRUE)
    IN  Cardinality({i \in 1..n :
            (n * xs[i].num - S) * (n * xs[i].num - S) > 4 * (n * Q - S * S)})

\* the number of values of column j with |z-score| > 3, the mean and the
\* (population) standard deviation taken over the non-missing values:
\* |x - S/n| > 3 * sqrt(Q/n - (S/n)^2)  iff  (n*x - S)^2 > 9 * (n*Q - S^2)
outlier_count(t, j) ==
    LET xs == NonMissing(t, j)
        n  == Len(xs)
        RECURSIVE Sum(_, _)
        Sum(i, sq) == IF i > n THEN 0
                      ELSE (IF sq THEN xs[i].num * xs[i].num ELSE xs[i].num) + Sum(i + 1, sq)
        S  == Sum(1, FALSE)
        Q  == Sum(1, TRUE)
    IN  Cardinality({i \in 1..n :
            (n * xs[i].num - S) * (n * xs[i].num - S) > 9 * (n * Q - S * S)})

\* a detector that leaves out the columns without a non-missing value
detect_outliers_skip_missing(t) ==
    IF NumericCols(t) = {} \/ NRows(t) = 0 THEN {}
    ELSE DictByName(t, {j \in NumericCols(t) : NonMissing(t, j) # <<>>},
                    LAMBDA j : outlier_count(t, j))

\* detect_outliers(df)
detect_outliers(t) ==
    IF NumericCols(t) = {} \/ NRows(t) = 0 THEN {}
    ELSE DictByName(t, NumericCols(t), LAMBDA j : outlier_count(t, j))

\* df.isnull().sum().to_dict()
null_summary(t) ==
    DictByName(t, 1..NCols(t),
               LAMBDA j : Cardinality({i \in 1..NRows(t) : t.rows[i][j] = NaN}))

(***************************************************************************)
(* Null tokens: replace_na_like_values and clean_dataframe applied to      *)
(* text columns of token-like cells.                                       *)
(***************************************************************************)
CallReplaceNaLikeValues ==
    /\ pc = "none" /\ NCols(df) > 0
    /\ df' = replace_na_like_values(df)
    /\ last' = [op |-> "replace_na_like_values", arg |-> df, exc |-> "",
                n |-> Chain("replace_na_like_values")]
    /\ UNCHANGED <<disk, pc, fn, file, bound, steps, result, run>>

NextTokens ==
    \/ CallReplaceNaLikeValues
    \/ CallCleanDataframe

\* the entries of na_values in upper, lower and mixed case, with and without
\* surrounding whitespace, and a word
TokenCells ==
    { Str(<<>>), Str(<<"n", "a">>), Str(<<"N", "A">>), Str(<<"n", "/", "a">>),
      Str(<<"N", "/", "A">>), Str(<<"n", "u", "l", "l">>), Str(<<"N", "u", "l", "l">>),
      Str(<<"N", "U", "L", "L">>), Str(<<"N", "a", "N">>), Str(<<"n", "a", "n">>),
      Str(<<"-">>), Str(<<"-", "-">>), Str(<<" ", "n", "a">>), Str(<<"x">>), NaN }

\* one text column of one or two token cells
TokenTables ==
    { [columns |-> << <<"A">> >>, dtypes |-> <<"object">>,
       rows |-> [i \in 1..Len(cs) |-> <<cs[i]>>]] :
      cs \in UNION {[1..n -> TokenCells] : n \in {1, 2}} }

InitTokens ==
    /\ df \in TokenTables
    /\ last = NoCall
    /\ disk = {}
    /\ PipelineIdle

TokenSpec == InitTokens /\ [][NextTokens]_vars

(***************************************************************************)
(* detect_outliers applied by a caller to a table it holds.                *)
(***************************************************************************)
CallDetectOutliers ==
    /\ pc = "none" /\ last.op # "detect_outliers"
    /\ last' = [op |-> "detect_outliers", arg |-> df, exc |-> "", n |-> 1,
                val |-> detect_outliers(df)]
    /\ UNCHANGED <<df, disk, pc, fn, file, bound, steps, result, run>>

NextOutlier ==
    \/ CallNormalizeColumnNames
    \/ CallDetectOutliers

\* the columns [1, 2, 3, 4, 100] and [5, 5, 5, 5, 5] (cells are in halves)
SmallPopulation == <<Num(2), Num(4), Num(6), Num(8), Num(200)>>

AllFives == <<Num(10), Num(10), Num(10), Num(10), Num(10)>>

SampleValues == {SmallPopulation[i] : i \in DOMAIN SmallPopulation} \cup {Num(10)}

OneColumn(xs) ==
    [columns |-> << <<"A">> >>, dtypes |-> <<"float64">>,
     rows |-> [i \in 1..Len(xs) |-> <<xs[i]>>]]

\* one numeric column: every column as long as [1, 2, 3, 4, 100] of its
\* values and 5, and every column of at most MaxSample values 1 and 100
SampleTables ==
    {OneColumn(xs) : xs \in [DOMAIN SmallPopulation -> SampleValues]}
    \cup
    {OneColumn(xs) : xs \in UNION {[1..n -> {Num(2), Num(200)}] : n \in 1..MaxSample}}

InitOutlier ==
    /\ df \in CellTables \cup SampleTables
    /\ last = NoCall
    /\ disk = {}
    /\ PipelineIdle

OutlierSpec == InitOutlier /\ [][NextOutlier]_vars

(***************************************************************************)
(* The pipeline entry points, step by step.                                *)
(*   clean_and_report     data_engine/cleaner.py 141-190                   *)
(*   clean_file_pipeline  controller/cleaner_controller.py 5-35            *)
(*   run_full_workflow    controller/workflow_manager.py 11-92             *)
(* steps records the pipeline steps of the specification that the          *)
(* invocation has completed: Received on entry, Classified when the        *)
(* extension is found in parser_map, Parsed when a non-empty table is      *)
(* obtained, Normalized after lines 150-153, Profiled after lines 154-155, *)
(* Done on a successful return, Failed when the except clause returns.     *)
(***************************************************************************)
EntryPoints == {"clean_and_report", "clean_file_pipeline", "run_full_workflow"}

FileExts == SUPPORTED_FORMATS \cup {".CSV", ".zzz", ".png"}

ContentKinds == {"zero_bytes", "malformed", "no_records", "records"}

\* the tables that files hold
FileTables ==
    TablesOver(CellNames, 1, 2, CellsOf) \cup TablesOver(CellNames, 2, 1, OneCell)

Files ==
    { [base |-> "x", ext |-> e, content |-> c, table |-> EmptyDataFrame] :
        e \in FileExts, c \in ContentKinds \ {"records"} }
    \cup
    { [base |-> "x", ext |-> e, content |-> "records", table |-> t] :
        e \in FileExts, t \in FileTables }

\* the dict returned by the except clause of each entry point
ErrorResult(f, e) ==
    CASE f = "clean_and_report" ->
            [status |-> "error", cleaned_file_path |-> "", original_rows |-> 0,
             cleaned_rows |-> 0, num_columns |-> 0, duplicates_removed |-> 0,
             normalized_columns |-> <<>>, null_summary |-> {},
             outliers_detected |-> {}, error |-> e.msg]
      [] f = "clean_file_pipeline" ->
            [status |-> "error", cleaned_file |-> "", rows |-> 0, columns |-> 0,
             preview |-> <<>>, error |-> e.msg]
      [] OTHER ->
            [status |-> "error", data_summary |-> {}, query_result |-> "None",
             explanation |-> "None", visual_path |-> "None", error |-> e.msg]

\* the exception e reaches the except clause of the entry point
Fail(e) ==
    /\ result' = ErrorResult(fn, e)
    /\ steps' = Append(steps, "Failed")
    /\ pc' = "done"

Call ==
    /\ pc = "idle"
    /\ \E f \in EntryPoints \cup {"detect_file_format"} : \E inp \in Files :
         /\ fn' = f
         /\ file' = inp
         /\ pc' = IF f = "detect_file_format" THEN "detect" ELSE "parse"
         /\ steps' = IF f = "detect_file_format" THEN <<>> ELSE <<"Received">>
    /\ UNCHANGED <<df, last, disk, bound, result, run>>

DetectFileFormat ==
    /\ pc = "detect"
    /\ result' = Ret(detect_file_format(file))
    /\ pc' = "done"
    /\ UNCHANGED <<df, last, disk, fn, file, bound, steps, run>>

\* df = parse_file(file_path), first statement of each entry point
ParseFile ==
    /\ pc = "parse"
    /\ \E o \in parse_file(file, bound) :
         /\ last' = [op |-> "parse_file", arg |-> file, exc |-> ExcOf(o),
                     parser_exc |-> o.parser_exc]
         /\ IF Raised(o)
            THEN Fail(o) /\ UNCHANGED df
            ELSE /\ df' = o.val
                 /\ pc' = "check"
                 /\ steps' = IF o.known THEN Append(steps, "Classified") ELSE steps
                 /\ UNCHANGED result
    /\ UNCHANGED <<disk, fn, file, bound, run>>

EmptyMessage ==
    CASE fn = "clean_and_report" -> "Parsed DataFrame is empty"
      [] fn = "clean_file_pipeline" -> "Parsed dataframe is empty"
      [] OTHER -> "Failed to parse file or file is empty."

\* if df is None or df.empty: raise ValueError(...)
CheckParsed ==
    /\ pc = "check"
    /\ IF IsEmpty(df)
       THEN Fail(Raise("ValueError", EmptyMessage))
       ELSE /\ pc' = "clean"
            /\ steps' = Append(steps, "Parsed")
            /\ UNCHANGED result
    /\ UNCHANGED <<df, last, disk, fn, file, bound, run>>

\* clean_and_report, lines 150-153
Normalize ==
    /\ pc = "clean" /\ fn = "clean_and_report"
    /\ LET r == Normalizer(df)
       IN  /\ last' = [op |-> "Normalizer", arg |-> df, exc |-> ExcOf(r), n |-> 1]
           /\ df' = AfterCall(r)
           /\ IF Raised(r)
              THEN Fail(r)
              ELSE /\ pc' = "profile"
                   /\ steps' = Append(steps, "Normalized")
                   /\ result' = [original_rows |-> NRows(df),
                                 cleaned_rows |-> NRows(r.val),
                                 normalized_columns |-> r.val.columns]
    /\ UNCHANGED <<disk, fn, file, bound, run>>

\* clean_and_report, lines 154-155
Profile ==
    /\ pc = "profile"
    /\ result' = [original_rows |-> result.original_rows,
                  cleaned_rows |-> result.cleaned_rows,
                  normalized_columns |-> result.normalized_columns,
                  null_summary |-> null_summary(df),
                  outliers_detected |-> detect_outliers(df)]
    /\ steps' = Append(steps, "Profiled")
    /\ pc' = "save"
    /\ UNCHANGED <<df, last, disk, fn, file, bound, run>>

\* base = os.path.basename(file_path).rsplit(".", 1)[0]
\* cleaned_path = os.path.join(output_dir, f"{base}_cleaned.csv")
cleaned_path(f) == <<"data", "cleaned", f.base, "_cleaned.csv">>

\* clean_and_report, lines 157-174
SaveAndReturn ==
    /\ pc = "save"
    /\ disk' = {w \in disk : w[1] # cleaned_path(file)} \cup {<<cleaned_path(file), df>>}
    /\ result' = [status |-> "success",
                  cleaned_file_path |-> cleaned_path(file),
                  original_rows |-> result.original_rows,
                  cleaned_rows |-> result.cleaned_rows,
                  num_columns |-> NCols(df),
                  duplicates_removed |-> result.original_rows - result.cleaned_rows,
                  normalized_columns |-> result.normalized_columns,
                  null_summary |-> result.null_summary,
                  outliers_detected |-> result.outliers_detected,
                  error |-> "None"]
    /\ steps' = Append(steps, "Done")
    /\ pc' = "done"
    /\ UNCHANGED <<df, last, fn, file, bound, run>>

\* clean_file_pipeline, line 17: clean_data(df, output_path=...) passes the
\* table as input_path; clean_data calls parse_file(df), whose first
\* statement os.path.splitext(df) raises TypeError; clean_data re-raises
CleanData ==
    /\ pc = "clean" /\ fn = "clean_file_pipeline"
    /\ last' = [op |-> "clean_data", arg |-> df, exc |-> "TypeError"]
    /\ Fail(Raise("TypeError",
                  "expected str, bytes or os.PathLike object, not DataFrame"))
    /\ UNCHANGED <<df, disk, fn, file, bound, run>>

\* run_full_workflow, line 34: clean_data_file(df) omits output_path
CleanDataFileCall ==
    /\ pc = "clean" /\ fn = "run_full_workflow"
    /\ last' = [op |-> "clean_data_file", arg |-> df, exc |-> "TypeError",
                pre |-> df, post |-> df, n |-> 1]
    /\ Fail(Raise("TypeError",
                  "clean_data_file() missing 1 required positional argument: 'output_path'"))
    /\ UNCHANGED <<df, disk, fn, file, bound, run>>

Init ==
    /\ df = EmptyDataFrame
    /\ last = NoCall
    /\ disk = {}
    /\ pc = "idle"
    /\ fn = "none"
    /\ file = "none"
    /\ bound \in {ModuleNames \cup o : o \in SUBSET OptionalNames}
    /\ steps = <<>>
    /\ result = "none"
    /\ run = NoRuns

Next ==
    \/ Call
    \/ DetectFileFormat
    \/ ParseFile
    \/ CheckParsed
    \/ Normalize
    \/ Profile
    \/ SaveAndReturn
    \/ CleanData
    \/ CleanDataFileCall

Spec == Init /\ [][Next]_vars

(***************************************************************************)
(* Two invocations running concurrently, each clean_and_report on a file   *)
(* or save_uploaded_file on an upload.  run[i] holds what invocation i     *)
(* owns: its position, entry point, input, table, result, and the path and *)
(* the content it has written; disk, the file system, is what they share.  *)
(***************************************************************************)
Invocations == {1, 2}

Other(i) == CHOOSE k \in Invocations : k # i

\* no input yet, nothing written yet
Nothing == [none |-> TRUE]

Idle == [pc |-> "idle", fn |-> "none", input |-> Nothing, df |-> EmptyDataFrame,
         result |-> "none", path |-> <<>>, written |-> Nothing]

\* the files given to clean_and_report: path <base><ext>
ConcurrentFiles ==
    { [base |-> b, ext |-> e, content |-> "records", table |-> t] :
        b \in {"x", "y"}, e \in {".json", ".xml"},
        t \in {OneColumn(<<Num(2)>>), OneColumn(<<Num(6), Num(6)>>)} }
    \cup
    { [base |-> b, ext |-> e, content |-> "zero_bytes", table |-> EmptyDataFrame] :
        b \in {"x", "y"}, e \in {".json", ".xml"} }

\* the UploadFile objects given to save_uploaded_file
Uploads == [filename : {"x.json", "y.json"}, bytes : {[bytes |-> "b1"], [bytes |-> "b2"]}]

IsUpload(inp) == "filename" \in DOMAIN inp

\* two invocations are on different inputs: files of different paths, or
\* different uploads
Different(a, b) ==
    IF IsUpload(a) /\ IsUpload(b) THEN a # b
    ELSE IF IsUpload(a) \/ IsUpload(b) THEN TRUE
    ELSE <<a.base, a.ext>> # <<b.base, b.ext>>

WriteFile(path, content) == {w \in disk : w[1] # path} \cup {<<path, content>>}

Start(i) ==
    /\ run[i].pc = "idle"
    /\ \E inp \in ConcurrentFiles \cup Uploads :
         /\ run[Other(i)].input # Nothing => Different(inp, run[Other(i)].input)
         /\ run' = [run EXCEPT ![i] =
                      [@ EXCEPT !.input = inp,
                                !.fn = IF IsUpload(inp) THEN "save_uploaded_file"
                                       ELSE "clean_and_report",
                                !.pc = IF IsUpload(inp) THEN "open" ELSE "parse"]]
    /\ UNCHANGED <<df, last, disk, pc, fn, file, bound, steps, result>>

\* the except clause of clean_and_report in invocation i
FailRun(i, e) ==
    run' = [run EXCEPT ![i] = [@ EXCEPT !.pc = "done",
                                        !.result = ErrorResult("clean_and_report", e)]]

\* clean_and_report, lines 145-148
ParseRun(i) ==
    /\ run[i].pc = "parse"
    /\ \E o \in parse_file(run[i].input, bound) :
         IF Raised(o) THEN FailRun(i, o)
         ELSE IF IsEmpty(o.val)
              THEN FailRun(i, Raise("ValueError", "Parsed DataFrame is empty"))
         ELSE run' = [run EXCEPT ![i] = [@ EXCEPT !.pc = "clean", !.df = o.val]]
    /\ UNCHANGED <<df, last, disk, pc, fn, file, bound, steps, result>>

\* clean_and_report, lines 150-155
NormalizeRun(i) ==
    /\ run[i].pc = "clean"
    /\ LET r == Normalizer(run[i].df)
       IN  IF Raised(r) THEN FailRun(i, r)
           ELSE run' = [run EXCEPT ![i] =
                          [@ EXCEPT !.pc = "save",
                                    !.df = r.val,
                                    !.result = [original_rows |-> NRows(run[i].df),
                                                cleaned_rows |-> NRows(r.val),
                                                normalized_columns |-> r.val.columns,
                                                null_summary |-> null_summary(r.val),
                                                outliers_detected |-> detect_outliers(r.val)]]]
    /\ UNCHANGED <<df, last, disk, pc, fn, file, bound, steps, result>>

\* clean_and_report, lines 157-174
SaveRun(i) ==
    /\ run[i].pc = "save"
    /\ disk' = WriteFile(cleaned_path(run[i].input), run[i].df)
    /\ run' = [run EXCEPT ![i] =
                 [@ EXCEPT !.pc = "done",
                           !.path = cleaned_path(run[i].input),
                           !.written = run[i].df,
                           !.result = [status |-> "success",
                                       cleaned_file_path |-> cleaned_path(run[i].input),
                                       original_rows |-> @.original_rows,
                                       cleaned_rows |-> @.cleaned_rows,
                                       num_columns |-> NCols(run[i].df),
                                       duplicates_removed |->
                                           @.original_rows - @.cleaned_rows,
                                       normalized_columns |-> @.normalized_columns,
                                       null_summary |-> @.null_summary,
                                       outliers_detected |-> @.outliers_detected,
                                       error |-> "None"]]]
    /\ UNCHANGED <<df, last, pc, fn, file, bound, steps, result>>

\* file_path = os.path.join(destination_folder, file.filename)
upload_path(u) == <<"data", "uploaded", u.filename>>

\* save_uploaded_file, lines 105-108: open(file_path, "wb") creates the file
\* or truncates it
OpenUpload(i) ==
    /\ run[i].pc = "open"
    /\ disk' = WriteFile(upload_path(run[i].input), [bytes |-> ""])
    /\ run' = [run EXCEPT ![i] = [@ EXCEPT !.pc = "write",
                                           !.path = upload_path(run[i].input)]]
    /\ UNCHANGED <<df, last, pc, fn, file, bound, steps, result>>

\* save_uploaded_file, lines 109-112: f.write(file.file.read()), close, return
WriteUpload(i) ==
    /\ run[i].pc = "write"
    /\ disk' = WriteFile(run[i].path, run[i].input.bytes)
    /\ run' = [run EXCEPT ![i] = [@ EXCEPT !.pc = "done",
                                           !.written = run[i].input.bytes,
                                           !.result = run[i].path]]
    /\ UNCHANGED <<df, last, pc, fn, file, bound, steps, result>>

InitConcurrent ==
    /\ run = [i \in Invocations |-> Idle]
    /\ disk = {}
    /\ bound \in {ModuleNames, ModuleNames \cup OptionalNames}
    /\ df = EmptyDataFrame /\ last = NoCall
    /\ pc = "none" /\ fn = "none" /\ file = "none"
    /\ steps = <<>> /\ result = "none"

NextConcurrent ==
    \E i \in Invocations :
        \/ Start(i)
        \/ ParseRun(i)
        \/ NormalizeRun(i)
        \/ SaveRun(i)
        \/ OpenUpload(i)
        \/ WriteUpload(i)

ConcurrentSpec == InitConcurrent /\ [][NextConcurrent]_vars

(***************************************************************************)
(* Properties of the pipeline (checked under Spec).                        *)
(***************************************************************************)
Failed == pc = "done" /\ fn \in EntryPoints /\ steps[Len(steps)] = "Failed"

ErrorKinds ==
    {"UnsupportedFormat", "EmptyInput", "DecodeError", "DependencyMissing",
     "NoRecordsFound", "MalformedStructure", "ImputationImpossible",
     "InternalFailure"}

\* C1: every failure of a pipeline invocation resolves to a returned
\* structured result that carries a status flag, an error kind and a
\* message (no exception leaves the entry point).
C1_FailureIsStructured ==
    Failed =>
        /\ {"status", "kind", "error"} \subseteq DOMAIN result
        /\ result.status = "error"
        /\ result.kind \in ErrorKinds

PipelineOrder ==
    <<"Received", "Classified", "Parsed", "Normalized", "Imputed", "Profiled", "Done">>

IsPrefix(s, t) == Len(s) <= Len(t) /\ \A i \in 1..Len(s) : s[i] = t[i]

\* C2: an invocation passes through Received, Classified, Parsed,
\* Normalized, Imputed, Profiled, Done in that order, skipping and repeating
\* none, or leaves that chain once, for Failed, where it stops; the result
\* of a failed invocation names the kind and the step that failed.
C2_StepOrder ==
    fn \in EntryPoints =>
        /\ \/ IsPrefix(steps, PipelineOrder)
           \/ /\ steps[Len(steps)] = "Failed"
              /\ IsPrefix(SubSeq(steps, 1, Len(steps) - 1), PipelineOrder)
        /\ Failed => {"kind", "step"} \subseteq DOMAIN result

Unsupported(f) == lower_ext(f.ext) \notin SUPPORTED_FORMATS

\* C3: for a file whose extension is not supported, classification and
\* dispatch fail with UnsupportedFormat: parse_file returns no table, and
\* detect_file_format reports the failure.
C3_UnsupportedFormatFails ==
    /\ (last.op = "parse_file" /\ Unsupported(last.arg))
          => last.exc = "UnsupportedFormat"
    /\ (pc = "done" /\ fn = "detect_file_format" /\ Unsupported(file))
          => (Raised(result) /\ result.exc = "UnsupportedFormat")

\* C4: a zero-byte or structurally empty file of a supported extension
\* yields the error kind EmptyInput.
C4_EmptyInputKind ==
    (pc = "done" /\ fn \in EntryPoints /\ ~Unsupported(file)
       /\ file.content \in {"zero_bytes", "no_records"})
        => /\ result.status = "error"
           /\ "kind" \in DOMAIN result
           /\ result.kind = "EmptyInput"

\* C5: when the selected format parser fails, parse_file surfaces a failure
\* and does not return an empty table in its place.
C5_ParserFailureSurfaces ==
    (last.op = "parse_file" /\ last.parser_exc # "") => last.exc # ""

(***************************************************************************)
(* Properties of the cleaner (checked under CleanSpec).                    *)
(***************************************************************************)
Succeeded(op) == last.op = op /\ last.exc = ""

Distinct(cs) == \A j, k \in 1..Len(cs) : j # k => cs[j] # cs[k]

\* C6: the Normalizer is idempotent: applied to its own result, it returns
\* that result unchanged (no row or column dropped, no cell changed).
C6_NormalizerIdempotent ==
    (last.op = "Normalizer" /\ last.n >= 2) => (last.exc = "" /\ df = last.arg)

Uppercase == {"A", "L", "N", "U", "X"}

NameIsClean(s) ==
    /\ \A i \in 1..Len(s) : s[i] \notin Uppercase /\ s[i] # " "
    /\ Len(s) > 0 => (s[1] \notin Whitespace /\ s[Len(s)] \notin Whitespace)

C8_ColumnNamesDistinct ==
    ((Succeeded("Normalizer") \/ Succeeded("clean_data_file"))
       /\ Distinct(last.arg.columns))
        => Distinct(df.columns)

\* v is the median of the numbers xs: the mean of the lower and the upper
\* middle value, each given by its rank
IsMedianOf(v, xs) ==
    LET n == Len(xs)
        below(a) == Cardinality({i \in 1..n : xs[i].num < a})
        upto(a)  == Cardinality({i \in 1..n : xs[i].num <= a})
        middle(k) == {xs[i].num : i \in {m \in 1..n :
                          below(xs[m].num) < k /\ k <= upto(xs[m].num)}}
    IN  /\ IsNum(v)
        /\ \E a \in middle((n + 1) \div 2) : \E b \in middle(n \div 2 + 1) :
               2 * v.num = a + b

\* C9: after clean_data_file has run, a numeric column with a non-missing
\* value has no missing value, and each formerly missing cell holds the
\* median of the column's non-missing values.
C9_NumericImputed ==
    Succeeded("clean_data_file") =>
        \A j \in 1..NCols(df) :
            (df.dtypes[j] = "float64" /\ NonMissing(last.pre, j) # <<>>) =>
                \A i \in 1..NRows(df) :
                    /\ df.rows[i][j] # NaN
                    /\ last.pre.rows[i][j] = NaN
                         => IsMedianOf(df.rows[i][j], NonMissing(last.pre, j))

C9_Witness ==
    /\ Succeeded("clean_data_file")
    /\ \E j \in 1..NCols(last.pre) :
         /\ last.pre.dtypes[j] = "float64"
         /\ HasMissing(last.pre, j)
         /\ Cardinality({c \in {last.pre.rows[i][j] : i \in 1..NRows(last.pre)} :
                           c # NaN}) = 2

FirstMostFrequent(xs) ==
    LET best == {k \in 1..Len(xs) :
                    \A m \in 1..Len(xs) : Count(xs, xs[m]) <= Count(xs, xs[k])}
    IN  xs[SetMin(best)]

Unknown == Str(<<"U", "n", "k", "n", "o", "w", "n">>)

\* C11: the imputation fills each missing cell of a text column with the
\* most frequent non-missing value of the column, the first encountered in
\* column order among equally frequent values, and with "Unknown" when the
\* column has no non-missing value.
C11_CategoricalImputed ==
    Succeeded("clean_data_file") =>
        \A j \in 1..NCols(last.pre) : \A i \in 1..NRows(last.pre) :
            (last.pre.dtypes[j] = "object" /\ last.pre.rows[i][j] = NaN) =>
                last.post.rows[i][j] =
                    IF NonMissing(last.pre, j) = <<>> THEN Unknown
                    ELSE FirstMostFrequent(NonMissing(last.pre, j))

(***************************************************************************)
(* Properties of detect_outliers (checked under OutlierSpec).              *)
(***************************************************************************)
\* the value that the mapping d holds for the name
HasEntry(d, name) == \E e \in d : e[1] = name

Entry(d, name) == (CHOOSE e \in d : e[1] = name)[2]

\* the last column of t that carries the name (a dict keeps the last value
\* assigned to a key)
LastLabelled(t, name) == SetMax(Labelled(t, name))

\* x is farther than three standard deviations from the mean of xs, both
\* sides multiplied by n and squared: n*(x - mean) is the sum of the
\* differences x - xs[i], and n^2 * variance is the sum of the squared
\* differences of the pairs of xs
IsOutlier(x, xs) ==
    LET n == Len(xs)
        RECURSIVE Dev(_)
        Dev(i) == IF i > n THEN 0 ELSE (x - xs[i].num) + Dev(i + 1)
        RECURSIVE Pairs(_, _)
        Pairs(i, k) == IF i > n THEN 0
                       ELSE IF k > n THEN Pairs(i + 1, i + 2)
                       ELSE (xs[i].num - xs[k].num) * (xs[i].num - xs[k].num)
                            + Pairs(i, k + 1)
    IN  Dev(1) * Dev(1) > 9 * Pairs(1, 2)

Outliers(xs) == Cardinality({i \in 1..Len(xs) : IsOutlier(xs[i].num, xs)})

CountsAreZScoreCounts ==
    (last.op = "detect_outliers" /\ NRows(last.arg) > 0) =>
        \A j \in NumericCols(last.arg) :
            LET name == last.arg.columns[j]
            IN  /\ HasEntry(last.val, name)
                /\ j = LastLabelled(last.arg, name)
                     => Entry(last.val, name) = Outliers(NonMissing(last.arg, j))

ZeroVariance(xs) == \A i, k \in 1..Len(xs) : xs[i] = xs[k]

\* C13 as stated: detect_outliers never raises; for any table every
\* numeric column has an entry in the returned mapping, and a numeric
\* column with zero variance or with only missing values maps to 0.
C13_EveryNumericColumnCounted ==
    last.op = "detect_outliers" =>
        /\ last.exc = ""
        /\ \A j \in NumericCols(last.arg) :
               /\ HasEntry(last.val, last.arg.columns[j])
               /\ ZeroVariance(NonMissing(last.arg, j))
                    => Entry(last.val, last.arg.columns[j]) = 0

\* C13 amended: detect_outliers never raises; for a table with at least
\* one row every numeric column has an entry under its name, which is 0
\* when the column (the last one of that name) has zero variance or only
\* missing values; a table without rows maps to the empty mapping.
C13_ZeroVarianceCountsZero ==
    last.op = "detect_outliers" =>
        /\ last.exc = ""
        /\ NRows(last.arg) = 0 => last.val = {}
        /\ NRows(last.arg) > 0 =>
             \A j \in NumericCols(last.arg) :
                 /\ HasEntry(last.val, last.arg.columns[j])
                 /\ (ZeroVariance(NonMissing(last.arg, j))
                       /\ j = LastLabelled(last.arg, last.arg.columns[j]))
                      => Entry(last.val, last.arg.columns[j]) = 0

C13_Witness ==
    /\ last.op = "detect_outliers"
    /\ \E j, k \in NumericCols(last.arg) :
         /\ NonMissing(last.arg, j) = <<>>
         /\ Len(NonMissing(last.arg, k)) >= 2
         /\ ZeroVariance(NonMissing(last.arg, k))

(***************************************************************************)
(* Properties of the report (checked under Spec).                          *)
(***************************************************************************)
\* the rows that deduplication (line 64) removes from the table t given to
\* clean_dataframe
DuplicateRows(t) ==
    LET d3 == dropna_cols(dropna_rows(t))
    IN  NRows(d3) - NRows(drop_duplicates(d3))

\* C14: duplicates_removed of the report is the number of exact-duplicate
\* rows removed by deduplication, and only that: rows removed for another
\* reason are not counted.
C14_DuplicatesRemoved ==
    (pc = "done" /\ fn = "clean_and_report" /\ result.status = "success")
        => result.duplicates_removed = DuplicateRows(last.arg)

(***************************************************************************)
(* Properties of concurrent invocations (checked under ConcurrentSpec).    *)
(***************************************************************************)
Finished(i) == run[i].pc = "done" /\ run[i].written # Nothing

\* C15: for any interleaving of two concurrent invocations of
\* clean_and_report or save_uploaded_file on different inputs, the two
\* never write the same output path, and the artifact each one wrote is on
\* disk as if the invocation had run alone.
C15_InvocationsIndependent ==
    /\ \A i \in Invocations :
         (run[i].path # <<>> /\ run[Other(i)].path # <<>>)
             => run[i].path # run[Other(i)].path
    /\ (\A i \in Invocations : run[i].pc = "done") =>
           \A i \in Invocations :
               Finished(i) => <<run[i].path, run[i].written>> \in disk

(***************************************************************************)
(* Properties of the null tokens (checked under TokenSpec).                *)
(***************************************************************************)
\* the NullTokens, in lower case
NullTokens ==
    { <<>>, <<"n", "a">>, <<"n", "/", "a">>, <<"n", "u", "l", "l">>,
      <<"n", "a", "n">>, <<"-">>, <<"-", "-">> }

\* the cell holds a NullToken, compared case-insensitively
IsNullToken(c) == IsStr(c) /\ lower(c.str) \in NullTokens

\* the cell that step (6) of clean_dataframe sees for the cell c of the
\* argument: the trimmed text; replace_na_like_values sees c itself
SeenBy(op, c) == IF op = "clean_dataframe" /\ IsStr(c) THEN Str(strip(c.str)) ELSE c

\* C16: normalization replaces every cell holding a NullToken, compared
\* case-insensitively, by the missing marker, and replaces no cell that is
\* not a NullToken.  (Stated for the calls that drop no row and no column,
\* so that a cell keeps its position.)
C16_NullTokensReplaced ==
    (last.op \in {"replace_na_like_values", "clean_dataframe"} /\ last.exc = ""
       /\ NRows(df) = NRows(last.arg) /\ NCols(df) = NCols(last.arg))
        => \A i \in 1..NRows(df) : \A j \in 1..NCols(df) :
               LET c == SeenBy(last.op, last.arg.rows[i][j])
               IN  /\ IsNullToken(c) => df.rows[i][j] = NaN
                   /\ (c # NaN /\ ~IsNullToken(c)) => df.rows[i][j] # NaN

(***************************************************************************)
(* Properties of the step order of the Normalizer (checked under           *)
(* CleanSpec).                                                             *)
(***************************************************************************)
\* the table after steps (1) to (4) on t: names trimmed, entirely-missing
\* rows and columns dropped, duplicate rows removed
AfterStep4(t) ==
    drop_duplicates(dropna_cols(dropna_rows(
        [t EXCEPT !.columns = [j \in 1..NCols(t) |-> trim_name(@[j])]])))

\* C17: the Normalizer applies its seven steps in the stated order, each
\* once: the rows and columns of its result are those left by steps (1) to
\* (4), the names are those of step (1) lower-cased and underscore-joined
\* by step (7), and a cell that was missing before step (5) is still
\* missing after step (6).
C17_SevenStepsInOrder ==
    Succeeded("Normalizer") =>
        LET d4 == AfterStep4(last.arg)
        IN  /\ NRows(df) = NRows(d4)
            /\ NCols(df) = NCols(d4)
            /\ \A j \in 1..NCols(d4) : df.columns[j] = normalize_name(d4.columns[j])
            /\ \A i \in 1..NRows(d4) : \A j \in 1..NCols(d4) :
                   d4.rows[i][j] = NaN => df.rows[i][j] = NaN

====
